---- MODULE Spec2Model ----
(***************************************************************************)
(* Identity Prism: wallet traits -> score -> rarity tier -> solar system.  *)
(*                                                                         *)
(* The model follows the latest revision of each function in the source:   *)
(*   calculateScore, the hook's publish step  src/src/hooks/useWalletData.ts*)
(*                                            (second module, l. 445-880)  *)
(*   SCORING, RARITY_THRESHOLDS, PLANET_TYPES src/unnamed/part_007 (l. 287-)*)
(*   generateSolarSystem, seededRandom,       src/unnamed/part_002         *)
(*   hashWalletAddress, RARITY_VISUALS                                     *)
(*   determineRarityTier                      src/src/hooks/useWalletData.ts*)
(*                                            (first module, l. 437-443)   *)
(*   mintIdentityPrism                        src/src/lib/mintIdentityPrism.ts*)
(*                                                                         *)
(* Numbers.  Every random() result is seed / 233280 with seed an integer   *)
(* in 0..233279, so every drawn quantity is kept as an exact integer       *)
(* numerator (the unit is given at each field).  Comparisons such as       *)
(* random() > 0.4 are made on the numerators (10 * seed > 4 * 233280);     *)
(* the IEEE doubles of the code order the same way for every seed.         *)
(* SOL balances are held in hundredths of a SOL.                           *)
(***************************************************************************)
EXTENDS Integers, Sequences, FiniteSets, TLC

VARIABLES
  traits,         \* the WalletTraits record handed to the functions
  walletAddress,  \* the identity string, a sequence of character codes
  seed,           \* the closure variable of seededRandom (state of the source)
  lastValue,      \* numerator of the value the last random() returned (v = lastValue / 233280)
  calls,          \* number of calls made on the current inputs
  descriptor,     \* the SolarSystemData the last generateSolarSystem call returned
  previous,       \* the SolarSystemData returned by the call before it
  score,          \* the score the last calculateScore call returned
  tier,           \* the tier the last rarity resolution returned
  walletData,     \* the WalletData state of the useWalletData hook
  metadata,       \* the MintMetadata built by mintIdentityPrism
  hash,           \* the value the last hashWalletAddress call returned (two 16-bit limbs)
  scene,          \* the state of the mounted SolarSystemScene component
  inflight,       \* the fetchData runs of useWalletData that have not returned yet
  page,           \* the view state and the timers of the Index page
  tables,         \* the palette objects of RARITY_VISUALS and who else holds them
  pc              \* the operation that ran last ("input" before any)

vars == <<traits, walletAddress, seed, lastValue, calls, descriptor, previous,
          score, tier, walletData, metadata, hash, scene, inflight, page, tables,
          pc>>

\* null where a string is expected
None == "none"

\* null where an object is expected
Null == [null |-> TRUE]

Min(a, b) == IF a <= b THEN a ELSE b

Max(a, b) == IF a >= b THEN a ELSE b

(***************************************************************************)
(* SCORING and RARITY_THRESHOLDS (src/unnamed/part_007, l. 300-334)        *)
(***************************************************************************)
SEEKER_GENESIS_BONUS == 200

CHAPTER2_PREORDER_BONUS == 150

COMBO_BONUS == 200

BLUE_CHIP_BONUS == 50

MEME_LORD_BONUS == 30

DEFI_KING_BONUS == 30

DIAMOND_HANDS_BONUS == 50

HYPERACTIVE_BONUS == 50

SOL_MINOR_BONUS == 15

SOL_MAJOR_BONUS == 35

SOL_LEGEND_BONUS == 75

WALLET_AGE_PER_YEAR == 50

WALLET_AGE_MAX == 150

TX_COUNT_CAP == 100

MAX_SCORE == 1200

COMMON_THRESHOLD == 0

RARE_THRESHOLD == 201

EPIC_THRESHOLD == 451

LEGENDARY_THRESHOLD == 651

MYTHIC_THRESHOLD == 851

Tiers == <<"common", "rare", "epic", "legendary", "mythic">>

TierSet == {Tiers[i] : i \in 1..Len(Tiers)}

\* position of a tier in the order common < rare < epic < legendary < mythic
TierRank(t) == CHOOSE i \in 1..Len(Tiers) : Tiers[i] = t

(***************************************************************************)
(* calculateScore (src/src/hooks/useWalletData.ts, l. 494-537)             *)
(***************************************************************************)
\* 1. SOL balance; t.solBalance is in hundredths of a SOL (5 SOL = 500)
SolBonus(t) ==
  IF t.solBalance >= 500 THEN SOL_LEGEND_BONUS
  ELSE IF t.solBalance >= 100 THEN SOL_MAJOR_BONUS
  ELSE IF t.solBalance >= 10 THEN SOL_MINOR_BONUS
  ELSE 0

\* 2. wallet age, a step function of walletAgeDays
AgeBonus(t) ==
  IF t.walletAgeDays > 365 THEN WALLET_AGE_MAX
  ELSE IF t.walletAgeDays > 180 THEN WALLET_AGE_PER_YEAR * 2
  ELSE IF t.walletAgeDays > 90 THEN WALLET_AGE_PER_YEAR
  ELSE IF t.walletAgeDays > 30 THEN WALLET_AGE_PER_YEAR \div 2
  ELSE 0

\* 3. Math.min(tx * 0.2, 100), in fifths of a point (TX_COUNT_MULTIPLIER = 0.2 = 1/5)
TxBonusFifths(t) == Min(t.txCount, TX_COUNT_CAP * 5)

\* 4. NFT count
NftBonus(t) ==
  IF t.nftCount > 100 THEN 100
  ELSE IF t.nftCount > 50 THEN 75
  ELSE IF t.nftCount > 10 THEN 40
  ELSE 0

\* 5. OG status: three independent ifs, the combo bonus is added on top
OgBonusComboReplaces(t) ==
  IF t.hasCombo THEN COMBO_BONUS
  ELSE (IF t.hasSeeker THEN SEEKER_GENESIS_BONUS ELSE 0)
       + (IF t.hasPreorder THEN CHAPTER2_PREORDER_BONUS ELSE 0)

OgBonus(t) ==
  (IF t.hasSeeker THEN SEEKER_GENESIS_BONUS ELSE 0)
  + (IF t.hasPreorder THEN CHAPTER2_PREORDER_BONUS ELSE 0)
  + (IF t.hasCombo THEN COMBO_BONUS ELSE 0)

\* 6. behavioural traits
BehaviourBonus(t) ==
  (IF t.isBlueChip THEN BLUE_CHIP_BONUS ELSE 0)
  + (IF t.isDeFiKing THEN DEFI_KING_BONUS ELSE 0)
  + (IF t.diamondHands THEN DIAMOND_HANDS_BONUS ELSE 0)
  + (IF t.hyperactiveDegen THEN HYPERACTIVE_BONUS ELSE 0)
  + (IF t.isMemeLord THEN MEME_LORD_BONUS ELSE 0)

\* the sum before rounding, in fifths of a point
RawScoreFifths(t) ==
  5 * (SolBonus(t) + AgeBonus(t) + NftBonus(t) + OgBonus(t) + BehaviourBonus(t))
  + TxBonusFifths(t)

\* Math.round(x) = floor(x + 1/2), for x = n / 5
RoundFifths(n) == (2 * n + 5) \div 10

CalculateScoreUncapped(t) ==
  RoundFifths(5 * (SolBonus(t) + AgeBonus(t) + NftBonus(t) + OgBonus(t) + BehaviourBonus(t))
              + t.txCount)

CalculateScore(t) == Min(RoundFifths(RawScoreFifths(t)), MAX_SCORE)

(***************************************************************************)
(* Rarity resolution                                                       *)
(***************************************************************************)
\* determineRarityTier (src/src/hooks/useWalletData.ts, l. 437-443)
DetermineRarityTierExclusive(s) ==
  IF s > MYTHIC_THRESHOLD THEN "mythic"
  ELSE IF s > LEGENDARY_THRESHOLD THEN "legendary"
  ELSE IF s > EPIC_THRESHOLD THEN "epic"
  ELSE IF s > RARE_THRESHOLD THEN "rare"
  ELSE "common"

DetermineRarityTier(s) ==
  IF s >= MYTHIC_THRESHOLD THEN "mythic"
  ELSE IF s >= LEGENDARY_THRESHOLD THEN "legendary"
  ELSE IF s >= EPIC_THRESHOLD THEN "epic"
  ELSE IF s >= RARE_THRESHOLD THEN "rare"
  ELSE "common"

\* the literal chain of the hook (src/src/hooks/useWalletData.ts, l. 850)
InlineRarityTierRounded(s) ==
  IF s >= 850 THEN "mythic"
  ELSE IF s >= 650 THEN "legendary"
  ELSE IF s >= 450 THEN "epic"
  ELSE IF s >= 200 THEN "rare"
  ELSE "common"

InlineRarityTier(s) ==
  IF s >= 851 THEN "mythic"
  ELSE IF s >= 651 THEN "legendary"
  ELSE IF s >= 451 THEN "epic"
  ELSE IF s >= 201 THEN "rare"
  ELSE "common"

(***************************************************************************)
(* hashWalletAddress and seededRandom (src/unnamed/part_002, l. 71-86)     *)
(***************************************************************************)
\* A 32-bit integer is held as two 16-bit limbs, value = hi * 2^16 + lo.
\* One turn of the loop: hash = ((hash << 5) - hash) + char; hash = hash & hash,
\* that is (31 * hash + char) modulo 2^32, here on the two's complement pattern.
HashStep(h, c) ==
  LET lo == 31 * h.lo + c
      hi == 31 * h.hi + (lo \div (2^16))
  IN  [hi |-> hi % (2^16), lo |-> lo % (2^16)]

RECURSIVE HashFold(_, _, _)
HashFold(address, i, h) ==
  IF i > Len(address) THEN h
  ELSE HashFold(address, i + 1, HashStep(h, address[i]))

\* Math.abs of the signed 32-bit value with pattern h (2^31 for the pattern 0x80000000)
AbsInt32(h) ==
  IF h.hi < 2^15 THEN h
  ELSE IF h.lo = 0 THEN [hi |-> 2^16 - h.hi, lo |-> 0]
  ELSE [hi |-> 2^16 - 1 - h.hi, lo |-> 2^16 - h.lo]

HashWalletAddress(address) == AbsInt32(HashFold(address, 1, [hi |-> 0, lo |-> 0]))

RandomModulus == 233280

RandomMultiplier == 9301

RandomIncrement == 49297

\* (s * 9301) modulo 233280 for s >= 0, split so that no product leaves 32 bits
MulMod(s) ==
  LET r == s % RandomModulus
  IN  (((r * 9000) % RandomModulus) + r * (RandomMultiplier - 9000)) % RandomModulus

\* The JavaScript remainder takes the sign of the dividend:
\* (seed * 9301 + 49297) % 233280 is negative when seed * 9301 + 49297 is.
NextSeed(s) ==
  IF s >= 0 THEN (MulMod(s) + RandomIncrement) % RandomModulus
  ELSE IF s >= -5 THEN (s * RandomMultiplier + RandomIncrement) % RandomModulus
  ELSE 0 - ((MulMod(0 - s) + RandomModulus - RandomIncrement) % RandomModulus)

\* random() > n / 10, for the value seed / 233280 just returned
Above(s, n) == 10 * s > n * RandomModulus

\* const addressSeed = walletAddress ? hashWalletAddress(walletAddress) : 0  (l. 504)
AddressSeed(address) ==
  IF address = <<>> THEN [hi |-> 0, lo |-> 0] ELSE HashWalletAddress(address)

\* addressSeed + uniqueTokenCount + nftCount (l. 505), reduced modulo 233280: the
\* recurrence reads a non-negative seed only through its residue (the products stay
\* below 2^53, so the double arithmetic of the code is exact).
SeedResidue(h, count) ==
  (((((h.hi * 256) % RandomModulus) * 256) % RandomModulus) + h.lo + count)
    % RandomModulus

InitialSeedStale(t, address) == seed

InitialSeed(t, address) ==
  SeedResidue(AddressSeed(address), t.uniqueTokenCount + t.nftCount)

(***************************************************************************)
(* RARITY_VISUALS, DUST_MULTIPLIER, clamp (src/unnamed/part_002, l. 99-155)*)
(***************************************************************************)
SEEKER_COLOR == "#00D4FF"

PREORDER_COLOR == "#FFD700"

RarityVisuals(rarityTier) ==
  CASE rarityTier = "common" ->
         [planetRange |-> <<1, 3>>, starMode |-> "single",
          palette |-> [primary |-> "#FF6B35", secondary |-> "#FF9D57"],
          ensureRings |-> FALSE, ensureMoons |-> FALSE, orbitColor |-> "#4488ff",
          plasmaBridge |-> FALSE, nebula |-> FALSE]
    [] rarityTier = "rare" ->
         [planetRange |-> <<4, 5>>, starMode |-> "single",
          palette |-> [primary |-> "#8CFFE3", secondary |-> "#FFD19A"],
          ensureRings |-> TRUE, ensureMoons |-> FALSE, orbitColor |-> "#4488ff",
          plasmaBridge |-> FALSE, nebula |-> FALSE]
    [] rarityTier = "epic" ->
         [planetRange |-> <<5, 6>>, starMode |-> "single",
          palette |-> [primary |-> "#C3A3FF", secondary |-> "#FF7AE2"],
          ensureRings |-> TRUE, ensureMoons |-> TRUE, orbitColor |-> "#4488ff",
          plasmaBridge |-> FALSE, nebula |-> FALSE]
    [] rarityTier = "legendary" ->
         [planetRange |-> <<6, 8>>, starMode |-> "binary",
          palette |-> [primary |-> "#6AD9FF", secondary |-> "#8CFFE3"],
          ensureRings |-> TRUE, ensureMoons |-> TRUE, orbitColor |-> "#ffd479",
          plasmaBridge |-> FALSE, nebula |-> FALSE]
    [] rarityTier = "mythic" ->
         [planetRange |-> <<8, 10>>, starMode |-> "binaryPulsar",
          palette |-> [primary |-> "#FF9C6D", secondary |-> "#7F5BFF"],
          ensureRings |-> TRUE, ensureMoons |-> TRUE, orbitColor |-> "#ffd479",
          plasmaBridge |-> TRUE, nebula |-> TRUE]

\* DUST_MULTIPLIER, in hundredths (1, 1.2, 1.35, 1.5, 1.8)
DustMultiplier(rarityTier) ==
  CASE rarityTier = "common" -> 100
    [] rarityTier = "rare" -> 120
    [] rarityTier = "epic" -> 135
    [] rarityTier = "legendary" -> 150
    [] rarityTier = "mythic" -> 180

Clamp(value, lo, hi) == Min(Max(value, lo), hi)

(***************************************************************************)
(* generateSolarSystem (src/unnamed/part_002, l. 502-650)                  *)
(***************************************************************************)
\* 1. the stellar profile (l. 510-554)
StellarProfileComboKeepsMode(t, currentScore) ==
  LET rarityConfig == RarityVisuals(t.rarityTier)
      sunType0 == IF t.hasCombo THEN "combo"
                  ELSE IF t.hasSeeker THEN "seeker"
                  ELSE IF t.hasPreorder THEN "preorder"
                  ELSE "basic"
      palette0 == IF t.hasCombo
                    THEN [primary |-> SEEKER_COLOR, secondary |-> PREORDER_COLOR]
                  ELSE IF t.hasSeeker
                    THEN [primary |-> SEEKER_COLOR, secondary |-> "#007C99"]
                  ELSE IF t.hasPreorder
                    THEN [primary |-> PREORDER_COLOR, secondary |-> "#FFB347"]
                  ELSE rarityConfig.palette
      mode0 == rarityConfig.starMode
      plasma0 == rarityConfig.plasmaBridge \/ t.hasCombo
      \* binary activation at score > 650
      promoted == currentScore > 650 /\ mode0 = "single"
      mode1 == IF promoted THEN "binary" ELSE mode0
      plasma1 == plasma0 \/ promoted
      mythic == t.rarityTier = "mythic"
  IN  [mode |-> IF mythic THEN "binaryPulsar" ELSE mode1,
       sunType |-> IF mythic THEN "mythic" ELSE sunType0,
       palette |-> IF mythic /\ sunType0 # "combo" THEN rarityConfig.palette
                   ELSE palette0,
       intensity |-> IF mythic THEN 5 ELSE 4,
       plasmaBridge |-> plasma1 \/ mythic,
       novaBridge |-> (IF mythic THEN "mythic" ELSE sunType0) = "combo" \/ mythic]

StellarProfileBadgeBeatsMythic(t, currentScore) ==
  LET rarityConfig == RarityVisuals(t.rarityTier)
      sunType0 == IF t.hasCombo THEN "combo"
                  ELSE IF t.hasSeeker THEN "seeker"
                  ELSE IF t.hasPreorder THEN "preorder"
                  ELSE "basic"
      palette0 == IF t.hasCombo
                    THEN [primary |-> SEEKER_COLOR, secondary |-> PREORDER_COLOR]
                  ELSE IF t.hasSeeker
                    THEN [primary |-> SEEKER_COLOR, secondary |-> "#007C99"]
                  ELSE IF t.hasPreorder
                    THEN [primary |-> PREORDER_COLOR, secondary |-> "#FFB347"]
                  ELSE rarityConfig.palette
      mode0 == IF t.hasCombo /\ rarityConfig.starMode = "single"
                 THEN "binary" ELSE rarityConfig.starMode
      plasma0 == rarityConfig.plasmaBridge \/ t.hasCombo
      \* binary activation at score > 650
      promoted == currentScore > 650 /\ mode0 = "single"
      mode1 == IF promoted THEN "binary" ELSE mode0
      plasma1 == plasma0 \/ promoted
      mythic == t.rarityTier = "mythic"
  IN  [mode |-> IF mythic THEN "binaryPulsar" ELSE mode1,
       sunType |-> IF mythic THEN "mythic" ELSE sunType0,
       palette |-> palette0,
       intensity |-> IF mythic THEN 5 ELSE 4,
       plasmaBridge |-> plasma1 \/ mythic,
       novaBridge |-> (IF mythic THEN "mythic" ELSE sunType0) = "combo" \/ mythic]

StellarProfilePromotesFromEpic(t, currentScore) ==
  LET rarityConfig == RarityVisuals(t.rarityTier)
      sunType0 == IF t.hasCombo THEN "combo"
                  ELSE IF t.hasSeeker THEN "seeker"
                  ELSE IF t.hasPreorder THEN "preorder"
                  ELSE "basic"
      palette0 == IF t.hasCombo
                    THEN [primary |-> SEEKER_COLOR, secondary |-> PREORDER_COLOR]
                  ELSE IF t.hasSeeker
                    THEN [primary |-> SEEKER_COLOR, secondary |-> "#007C99"]
                  ELSE IF t.hasPreorder
                    THEN [primary |-> PREORDER_COLOR, secondary |-> "#FFB347"]
                  ELSE rarityConfig.palette
      mode0 == IF t.hasCombo /\ rarityConfig.starMode = "single"
                 THEN "binary" ELSE rarityConfig.starMode
      plasma0 == rarityConfig.plasmaBridge \/ t.hasCombo
      \* binary activation at score > 650
      promoted == currentScore > 450 /\ mode0 = "single"
      mode1 == IF promoted THEN "binary" ELSE mode0
      plasma1 == plasma0 \/ promoted
      mythic == t.rarityTier = "mythic"
  IN  [mode |-> IF mythic THEN "binaryPulsar" ELSE mode1,
       sunType |-> IF mythic THEN "mythic" ELSE sunType0,
       palette |-> IF mythic /\ sunType0 # "combo" THEN rarityConfig.palette
                   ELSE palette0,
       intensity |-> IF mythic THEN 5 ELSE 4,
       plasmaBridge |-> plasma1 \/ mythic,
       novaBridge |-> (IF mythic THEN "mythic" ELSE sunType0) = "combo" \/ mythic]

StellarProfile(t, currentScore) ==
  LET rarityConfig == RarityVisuals(t.rarityTier)
      sunType0 == IF t.hasCombo THEN "combo"
                  ELSE IF t.hasSeeker THEN "seeker"
                  ELSE IF t.hasPreorder THEN "preorder"
                  ELSE "basic"
      palette0 == IF t.hasCombo
                    THEN [primary |-> SEEKER_COLOR, secondary |-> PREORDER_COLOR]
                  ELSE IF t.hasSeeker
                    THEN [primary |-> SEEKER_COLOR, secondary |-> "#007C99"]
                  ELSE IF t.hasPreorder
                    THEN [primary |-> PREORDER_COLOR, secondary |-> "#FFB347"]
                  ELSE rarityConfig.palette
      mode0 == IF t.hasCombo /\ rarityConfig.starMode = "single"
                 THEN "binary" ELSE rarityConfig.starMode
      plasma0 == rarityConfig.plasmaBridge \/ t.hasCombo
      \* binary activation at score > 650
      promoted == currentScore > 650 /\ mode0 = "single"
      mode1 == IF promoted THEN "binary" ELSE mode0
      plasma1 == plasma0 \/ promoted
      mythic == t.rarityTier = "mythic"
  IN  [mode |-> IF mythic THEN "binaryPulsar" ELSE mode1,
       sunType |-> IF mythic THEN "mythic" ELSE sunType0,
       palette |-> IF mythic /\ sunType0 # "combo" THEN rarityConfig.palette
                   ELSE palette0,
       intensity |-> IF mythic THEN 5 ELSE 4,
       plasmaBridge |-> plasma1 \/ mythic,
       novaBridge |-> (IF mythic THEN "mythic" ELSE sunType0) = "combo" \/ mythic]

\* 2. the planet count (l. 557-561): the upper limit of the clamp is the literal 10
PlanetCount(t) ==
  Clamp(Max(RarityVisuals(t.rarityTier).planetRange[1], t.uniqueTokenCount \div 10),
        RarityVisuals(t.rarityTier).planetRange[1],
        10)

\* The states of the random source of one call: Draws(s, n)[c + 1] is the state
\* after c calls of random() on a source in state s, for c = 0..n.  The value
\* the c-th call returns is that state over 233280.
RECURSIVE DrawsFrom(_, _)
DrawsFrom(n, acc) ==
  IF n = 0 THEN acc ELSE DrawsFrom(n - 1, Append(acc, NextSeed(acc[Len(acc)])))

Draws(s, n) == DrawsFrom(n, <<s>>)

\* the state after c calls, which is the numerator of the value call c returned
Drawn(d, c) == d[c + 1]

\* the moons of planet i (l. 592-607); c calls of random() were made before.
\* Units: size 1/(100*M), orbitRadius 1/(10*M), orbitSpeed and color the draw
\* itself, initialAngle pi/M, inclination 1/(5*M), with M = 233280.
RECURSIVE MoonList(_, _, _, _, _, _, _)
MoonList(i, moonCount, baseAngle, j, d, c, acc) ==
  IF j >= moonCount THEN [moons |-> acc, calls |-> c]
  ELSE MoonList(i, moonCount, baseAngle, j + 1, d, c + 5,
                Append(acc,
                       [id |-> <<i, j>>,
                        size |-> 5 * RandomModulus + 10 * Drawn(d, c + 1),
                        orbitRadius |-> 8 * RandomModulus + 4 * j * RandomModulus
                                        + 2 * Drawn(d, c + 2),
                        orbitSpeed |-> Drawn(d, c + 3),
                        initialAngle |-> IF j = 0 THEN 2 * baseAngle
                                         ELSE 2 * baseAngle + RandomModulus,
                        color |-> Drawn(d, c + 4),
                        inclination |-> 2 * Drawn(d, c + 5) - RandomModulus]))

MoonsAtLeastOne(t, i, d, c) ==
  IF i < 2
    THEN MoonList(i, Max(1, Min(t.nftCount \div 50, 2)), Drawn(d, c + 1), 0, d, c + 1, <<>>)
    ELSE [moons |-> <<>>, calls |-> c]

MoonsOnFirstPlanetOnly(t, i, d, c) ==
  IF i < 1 /\ t.nftCount >= 50
    THEN MoonList(i, Min(t.nftCount \div 50, 2), Drawn(d, c + 1), 0, d, c + 1, <<>>)
    ELSE [moons |-> <<>>, calls |-> c]

MoonsOnFirstThreePlanets(t, i, d, c) ==
  IF i < 3 /\ t.nftCount >= 50
    THEN MoonList(i, Min(t.nftCount \div 50, 2), Drawn(d, c + 1), 0, d, c + 1, <<>>)
    ELSE [moons |-> <<>>, calls |-> c]

Moons(t, i, d, c) ==
  IF i < 2 /\ t.nftCount >= 50
    THEN MoonList(i, Min(t.nftCount \div 50, 2), Drawn(d, c + 1), 0, d, c + 1, <<>>)
    ELSE [moons |-> <<>>, calls |-> c]

\* the type of a planet (l. 568-583).  && short-circuits: random() is called for
\* the meme and DeFi tests only when the flag is set, for the terrestrial test
\* only when isHighActivity, and for gas against volcanic only in the last branch.
PlanetType(t, currentScore, d) ==
  LET c1 == IF t.isMemeLord THEN 1 ELSE 0
      isMemePlanet == t.isMemeLord /\ Above(Drawn(d, c1), 4)
      c2 == c1 + (IF t.isDeFiKing THEN 1 ELSE 0)
      isDeFiPlanet == t.isDeFiKing /\ Above(Drawn(d, c2), 4)
      isHighActivity == t.txCount > 500 \/ currentScore > 600
      c3 == c2 + (IF isHighActivity THEN 1 ELSE 0)
      isTerrestrial == isHighActivity /\ Above(Drawn(d, c3), 4)
  IN  IF isTerrestrial THEN [type |-> "terrestrial", calls |-> c3]
      ELSE IF isMemePlanet THEN [type |-> "volcanic", calls |-> c3]
      ELSE IF isDeFiPlanet THEN [type |-> "ice", calls |-> c3]
      ELSE [type |-> IF Above(Drawn(d, c3 + 1), 5) THEN "gas" ELSE "volcanic",
            calls |-> c3 + 1]

\* the planet pushed at l. 609-622, with its type and moons already drawn.
\* Units: size and orbitRadius 1/(10*M), rotationSpeed the draw itself,
\* initialAngle 2*pi/M.
PlanetData(minOrbitRadius, i, d, type, m) ==
  [planet |->
     [id |-> i,
      size |-> 3 * RandomModulus + 5 * Drawn(d, type.calls + 1),
      orbitRadius |-> 10 * minOrbitRadius * RandomModulus
                      + 25 * i * RandomModulus + 7 * Drawn(d, type.calls + 2),
      orbitSpeed |-> [num |-> 64, den |-> 100000 * (4 + i)],
      rotationSpeed |-> Drawn(d, m.calls + 1),
      type |-> type.type,
      initialAngle |-> Drawn(d, m.calls + 2),
      moons |-> m.moons,
      hasRing |-> FALSE,
      geometry |-> IF Above(Drawn(d, m.calls + 3), 8) THEN "oblate" ELSE "sphere",
      \* Math.floor(random() * 10000), with 10000 / 233280 = 625 / 14580
      materialSeed |-> (Drawn(d, m.calls + 4) * 625) \div (RandomModulus \div 16),
      surface |-> type.type],
   seed |-> Drawn(d, m.calls + 4)]

\* size and orbitRadius are drawn after the type, the moons after them
PlanetOfType(t, minOrbitRadius, i, d, type) ==
  PlanetData(minOrbitRadius, i, d, type, Moons(t, i, d, type.calls + 2))

\* one turn of the planet loop (l. 568-623) from the source state s: at most
\* 4 calls for the type, 2 for size and orbit, 1 + 5 * 2 for the moons, 4 more
Planet(t, currentScore, minOrbitRadius, i, s) ==
  PlanetOfType(t, minOrbitRadius, i, Draws(s, 4 + 2 + (1 + 5 * 2) + 4),
               PlanetType(t, currentScore, Draws(s, 4)))

\* the push and the tracking of the largest planet (l. 585-586, 609-622)
PushedKeepsFirstAsLargest(acc, i, p) ==
  [planets |-> Append(acc.planets, p.planet),
   seed |-> p.seed,
   largestPlanetIndex |-> 0,
   largestSize |-> Max(p.planet.size, acc.largestSize)]

Pushed(acc, i, p) ==
  [planets |-> Append(acc.planets, p.planet),
   seed |-> p.seed,
   largestPlanetIndex |->
     IF p.planet.size > acc.largestSize THEN i ELSE acc.largestPlanetIndex,
   largestSize |->
     IF p.planet.size > acc.largestSize THEN p.planet.size ELSE acc.largestSize]

\* the loop itself (l. 563-623)
RECURSIVE PlanetLoop(_, _, _, _, _, _)
PlanetLoop(t, currentScore, minOrbitRadius, planetCount, i, acc) ==
  IF i >= planetCount THEN acc
  ELSE PlanetLoop(t, currentScore, minOrbitRadius, planetCount, i + 1,
                  Pushed(acc, i, Planet(t, currentScore, minOrbitRadius, i, acc.seed)))

\* Blue Chip NFT -> rings (l. 625-628)
WithRingsOnEachNewLargest(t, planets, largestPlanetIndex) ==
  IF t.isBlueChip \/ RarityVisuals(t.rarityTier).ensureRings
    THEN [k \in 1..Len(planets) |->
            IF \A j \in 1..(k - 1) : planets[j].size < planets[k].size
              THEN [planets[k] EXCEPT !.hasRing = TRUE] ELSE planets[k]]
    ELSE planets

WithRings(t, planets, largestPlanetIndex) ==
  IF (t.isBlueChip \/ RarityVisuals(t.rarityTier).ensureRings) /\ Len(planets) > 0
    THEN [planets EXCEPT ![largestPlanetIndex + 1].hasRing = TRUE]
    ELSE planets

\* Math.min(Math.floor((150 + Math.floor(txCount / 100) * 8) * DUST_MULTIPLIER), 3000)
DustParticleCountUncapped(t) ==
  ((150 + (t.txCount \div 100) * 8) * DustMultiplier(t.rarityTier)) \div 100

DustParticleCount(t) ==
  Min(((150 + (t.txCount \div 100) * 8) * DustMultiplier(t.rarityTier)) \div 100, 3000)

SpreadRadius(planetCount, mode) ==
  50 + planetCount * 6 + (IF mode # "single" THEN 10 ELSE 0)

\* the returned object (l. 637-649) and the final state of the source.
\* Units: spaceDust.spreadRadius 1, starfieldDensity 1/1000, nebula.radius 1/10,
\* nebula.intensity 1/100.
SolarSystemDataEmptyNebula(t, rarityConfig, stellarProfile, planetCount, loop) ==
  [data |->
     [planets |-> WithRings(t, loop.planets, loop.largestPlanetIndex),
      spaceDust |-> [particleCount |-> DustParticleCount(t),
                     spreadRadius |-> SpreadRadius(planetCount, stellarProfile.mode),
                     colors |-> <<stellarProfile.palette.primary,
                                  stellarProfile.palette.secondary, "#ffffff">>],
      starfieldDensity |-> 100 + DustMultiplier(t.rarityTier) * 2,
      stellarProfile |-> stellarProfile,
      orbitColor |-> rarityConfig.orbitColor,
      rarityTier |-> t.rarityTier,
      nebula |-> IF rarityConfig.nebula
                   THEN [colors |-> <<"#2b1055", "#7a00ff", "#ff8e53">>,
                         intensity |-> 65,
                         radius |-> SpreadRadius(planetCount, stellarProfile.mode) * 12]
                   ELSE [colors |-> <<>>, intensity |-> 0, radius |-> 0]],
   seed |-> loop.seed]

SolarSystemData(t, rarityConfig, stellarProfile, planetCount, loop) ==
  [data |->
     [planets |-> WithRings(t, loop.planets, loop.largestPlanetIndex),
      spaceDust |-> [particleCount |-> DustParticleCount(t),
                     spreadRadius |-> SpreadRadius(planetCount, stellarProfile.mode),
                     colors |-> <<stellarProfile.palette.primary,
                                  stellarProfile.palette.secondary, "#ffffff">>],
      starfieldDensity |-> 100 + DustMultiplier(t.rarityTier) * 2,
      stellarProfile |-> stellarProfile,
      orbitColor |-> rarityConfig.orbitColor,
      rarityTier |-> t.rarityTier,
      nebula |-> IF rarityConfig.nebula
                   THEN [colors |-> <<"#2b1055", "#7a00ff", "#ff8e53">>,
                         intensity |-> 65,
                         radius |-> SpreadRadius(planetCount, stellarProfile.mode) * 12]
                   ELSE Null],
   seed |-> loop.seed]

\* the call once currentScore and the stellar profile are known (l. 556-649)
SolarSystemOfProfile(t, address, currentScore, stellarProfile) ==
  SolarSystemData(t, RarityVisuals(t.rarityTier), stellarProfile, PlanetCount(t),
                  PlanetLoop(t, currentScore,
                             IF stellarProfile.mode = "single" THEN 6 ELSE 10,
                             PlanetCount(t), 0,
                             [planets |-> <<>>, seed |-> InitialSeed(t, address),
                              largestPlanetIndex |-> 0, largestSize |-> 0]))

\* the call once currentScore is known (l. 510-649)
SolarSystemOfScore(t, address, currentScore) ==
  SolarSystemOfProfile(t, address, currentScore, StellarProfile(t, currentScore))

\* the whole call: the returned SolarSystemData and the final state of the source
GenerateSolarSystem(t, address) == SolarSystemOfScore(t, address, CalculateScore(t))

(***************************************************************************)
(* Inputs                                                                  *)
(***************************************************************************)
MaxCalls == 2

\* "" and the start of a wallet address (base58 text "GT22s89nU4iWFkNX" as
\* character codes), which folds past 32 bits in hashWalletAddress
Addresses ==
  { <<>>,
    <<71, 84, 50, 50, 115, 56, 57, 110, 85, 52, 105, 87, 70, 107, 78, 88>> }

\* (hasSeeker, hasPreorder, hasCombo) as the hook sets them: hasCombo = hasSeeker && hasPreorder
BadgeFlags ==
  { <<FALSE, FALSE, FALSE>>, <<TRUE, FALSE, FALSE>>, <<FALSE, TRUE, FALSE>>,
    <<TRUE, TRUE, TRUE>> }

\* (solBalance in hundredths of a SOL, walletAgeDays)
Wealth == { <<0, 0>>, <<600, 900>> }

TraitsOf(badges, blue, defi, meme, hyper, diamond, u, n, tx, wealth, rarityTier) ==
  [hasSeeker |-> badges[1], hasPreorder |-> badges[2], hasCombo |-> badges[3],
   isBlueChip |-> blue, isDeFiKing |-> defi, isMemeLord |-> meme,
   hyperactiveDegen |-> hyper, diamondHands |-> diamond,
   uniqueTokenCount |-> u, nftCount |-> n, txCount |-> tx,
   solBalance |-> wealth[1], walletAgeDays |-> wealth[2],
   rarityTier |-> rarityTier]

\* the records handed to generateSolarSystem
GeneratorTraits ==
  { TraitsOf(badges, blue, defi, meme, FALSE, FALSE, u, n, tx, wealth, rarityTier) :
      badges \in BadgeFlags, blue \in BOOLEAN, defi \in BOOLEAN, meme \in BOOLEAN,
      u \in {0, 45, 120}, n \in {0, 50, 230}, tx \in {0, 1500},
      wealth \in Wealth, rarityTier \in TierSet }

NoHash == [hi |-> 0, lo |-> 0]

\* no SolarSystemScene mounted yet
\* traitsRef names the object that is the traits prop (0 for null), objects
\* counts the traits objects the hook has built, fetches the fetchData runs it
\* has started, deps are the dependencies of the
\* last useMemo computation, generatedFor the arguments of the last
\* generateSolarSystem execution, repeated the executions whose arguments had the
\* content of the execution before them, shown the visible elements rendered,
\* traitsOf the address whose scan built the traits object
NoScene ==
  [mounted |-> FALSE, traitsRef |-> 0, objects |-> 0, fetches |-> 0,
   isWarping |-> FALSE,
   deps |-> Null, generatedFor |-> Null, repeated |-> 0, threw |-> FALSE,
   shown |-> {}, traitsOf |-> <<>>]

\* the Index page before its first render: viewState, the dependencies of the
\* last run of the view-state effect, whether its 500 ms timer is pending, the
\* number of pending 2500 ms warp timers, whether HELIUS_CONFIG.API_KEY is set,
\* and the number of writes to walletData made by a fetchData whose effect had
\* been cleaned up
NoPage ==
  [viewState |-> "landing", viewDeps |-> Null, readyTimer |-> FALSE,
   warpTimers |-> 0, hasApiKey |-> TRUE, staleWrites |-> 0]

\* RARITY_VISUALS as the module is loaded: the palette object of each tier, and
\* which of descriptor and previous hold the palette object of the mythic tier
\* itself as their stellarProfile.palette
ModuleTables ==
  [palettes |-> [rarityTier \in TierSet |-> RarityVisuals(rarityTier).palette],
   aliased |-> {}]

NoWalletData ==
  [address |-> <<>>, score |-> 0, traits |-> Null, isLoading |-> FALSE, error |-> None]

(***************************************************************************)
(* Spec: generateSolarSystem called on every record of GeneratorTraits     *)
(***************************************************************************)
Init ==
  /\ traits \in GeneratorTraits
  /\ walletAddress \in Addresses
  /\ seed = 0
  /\ lastValue = 0
  /\ calls = 0
  /\ descriptor = Null
  /\ previous = Null
  /\ score = 0
  /\ tier = None
  /\ walletData = NoWalletData
  /\ metadata = Null
  /\ hash = NoHash
  /\ inflight = {}
  /\ page = NoPage
  /\ tables = ModuleTables
  /\ scene = NoScene
  /\ pc = "input"

\* palette = rarityConfig.palette (l. 540): on the mythic tier without the combo
\* the profile holds the palette object of RARITY_VISUALS itself, no copy
SharesPalette(t) == t.rarityTier = "mythic" /\ ~t.hasCombo

\* the palette of the profile is the one of rarityConfig (no badge palette has
\* the colours of a tier), so it is read from the table as it is at the call:
\* by reference on the mythic tier, as a copy ({ ...rarityConfig.palette },
\* l. 512) without a badge
ReadsTablePalette(data, t) ==
  data.stellarProfile.palette = RarityVisuals(t.rarityTier).palette

WithTablePalette(data, t, tb) ==
  IF ReadsTablePalette(data, t)
    THEN [data EXCEPT
            !.stellarProfile.palette = tb.palettes[t.rarityTier],
            !.spaceDust.colors = <<tb.palettes[t.rarityTier].primary,
                                   tb.palettes[t.rarityTier].secondary, "#ffffff">>]
    ELSE data

\* the holders of the mythic palette object after a call: the descriptor before
\* becomes previous
HeldAfterCall(aliased, t) ==
  (IF "descriptor" \in aliased THEN {"previous"} ELSE {})
    \cup (IF SharesPalette(t) THEN {"descriptor"} ELSE {})

\* one call of generateSolarSystem(traits, walletAddress); seededRandom builds a
\* new source for the call, whose closure variable ends in g.seed
Generate ==
  /\ calls < MaxCalls
  /\ \E g \in {GenerateSolarSystem(traits, walletAddress)} :
       /\ descriptor' = WithTablePalette(g.data, traits, tables)
       /\ seed' = g.seed
       /\ lastValue' = g.seed
  /\ previous' = descriptor
  /\ tables' = [tables EXCEPT !.aliased = HeldAfterCall(@, traits)]
  /\ calls' = calls + 1
  /\ score' = CalculateScore(traits)
  /\ pc' = "generateSolarSystem"
  /\ UNCHANGED <<traits, walletAddress, tier, walletData, metadata,
                 hash, scene, inflight, page>>

Next == Generate

Spec == Init /\ [][Next]_vars

(***************************************************************************)
(* Properties of generateSolarSystem, checked under Spec                   *)
(***************************************************************************)
RingedPlanets(d) == {k \in 1..Len(d.planets) : d.planets[k].hasRing}

RECURSIVE MoonTotal(_, _)
MoonTotal(planets, k) ==
  IF k > Len(planets) THEN 0 ELSE Len(planets[k].moons) + MoonTotal(planets, k + 1)

\* a record as the hook publishes it: rarityTier is the tier resolved from its score
HasResolvedTier(t) == t.rarityTier = InlineRarityTier(CalculateScore(t))

PlanetCountWithinTierRange ==
  descriptor # Null =>
    /\ Len(descriptor.planets) >= RarityVisuals(descriptor.rarityTier).planetRange[1]
    /\ Len(descriptor.planets) <= RarityVisuals(descriptor.rarityTier).planetRange[2]

\* a common-tier wallet with 45 unique tokens receives floor(45 / 10) = 4 planets
WitnessCommonWithFourPlanets ==
  /\ descriptor # Null
  /\ traits.rarityTier = "common"
  /\ traits.uniqueTokenCount = 45
  /\ Len(descriptor.planets) = 4

\* C6: in every returned descriptor at most one planet has hasRing = true.
AtMostOneRing == descriptor # Null => Cardinality(RingedPlanets(descriptor)) <= 1

\* the ring sits on a later planet that outgrew the first ones
WitnessRingOnLaterPlanet ==
  /\ descriptor # Null
  /\ Len(descriptor.planets) >= 8
  /\ \E k \in 3..Len(descriptor.planets) :
       /\ RingedPlanets(descriptor) = {k}
       /\ descriptor.planets[1].size < descriptor.planets[2].size
       /\ descriptor.planets[2].size < descriptor.planets[k].size

\* the all-false, all-zero traits record, with the tier its score resolves to
IsZeroTraits(t) ==
  /\ ~t.hasSeeker /\ ~t.hasPreorder /\ ~t.hasCombo
  /\ ~t.isBlueChip /\ ~t.isDeFiKing /\ ~t.isMemeLord
  /\ ~t.hyperactiveDegen /\ ~t.diamondHands
  /\ t.uniqueTokenCount = 0 /\ t.nftCount = 0 /\ t.txCount = 0
  /\ t.solBalance = 0 /\ t.walletAgeDays = 0
  /\ HasResolvedTier(t)

\* C7: for the all-false, all-zero traits record and any wallet address the
\* score is 0, the resolved tier is common, and the descriptor has exactly the
\* common tier's minimum of 1 planet, no ring and no moon.
ZeroTraitsGiveMinimalSystem ==
  (descriptor # Null /\ IsZeroTraits(traits)) =>
    /\ score = 0
    /\ DetermineRarityTier(score) = "common"
    /\ traits.rarityTier = "common"
    /\ Len(descriptor.planets) = RarityVisuals("common").planetRange[1]
    /\ Len(descriptor.planets) = 1
    /\ RingedPlanets(descriptor) = {}
    /\ MoonTotal(descriptor.planets, 1) = 0

WitnessZeroTraitsGenerated ==
  /\ descriptor # Null
  /\ IsZeroTraits(traits)
  /\ walletAddress # <<>>
  /\ pc = "generateSolarSystem"
  /\ Len(descriptor.planets) = 1

\* the record of the scenario: both badges, the combo and blue chip; 45 unique
\* tokens, 230 NFTs, 1500 transactions, 6 SOL, 900 days
IsShowcaseTraits(t) ==
  /\ t.hasSeeker /\ t.hasPreorder /\ t.hasCombo /\ t.isBlueChip
  /\ ~t.isDeFiKing /\ ~t.isMemeLord /\ ~t.hyperactiveDegen /\ ~t.diamondHands
  /\ t.uniqueTokenCount = 45 /\ t.nftCount = 230 /\ t.txCount = 1500
  /\ t.solBalance = 600 /\ t.walletAgeDays = 900
  /\ HasResolvedTier(t)

\* C8: for the scenario record and any wallet address the score resolves to
\* mythic, the stellar mode is binaryPulsar, exactly one planet carries a ring
\* and the moons of all planets together number floor(230 / 50) = 4.
ShowcaseTraitsGiveMythicSystem ==
  (descriptor # Null /\ IsShowcaseTraits(traits)) =>
    /\ DetermineRarityTier(score) = "mythic"
    /\ descriptor.rarityTier = "mythic"
    /\ descriptor.stellarProfile.mode = "binaryPulsar"
    /\ Cardinality(RingedPlanets(descriptor)) = 1
    /\ MoonTotal(descriptor.planets, 1) = 230 \div 50

WitnessShowcaseGenerated ==
  /\ descriptor # Null
  /\ IsShowcaseTraits(traits)
  /\ walletAddress # <<>>
  /\ score = 1025
  /\ Len(descriptor.planets[1].moons) = 2
  /\ Len(descriptor.planets[2].moons) = 2

\* C14: when hasCombo is set, whatever the tier, the star mode is not single
\* (binary, or binaryPulsar where the tier gives it) and the palette is the two
\* badge colours.
ComboOverridesModeAndPalette ==
  (pc = "generateSolarSystem" /\ traits.hasCombo) =>
    /\ descriptor.stellarProfile.mode \in {"binary", "binaryPulsar"}
    /\ descriptor.stellarProfile.mode = "binaryPulsar" =>
         RarityVisuals(traits.rarityTier).starMode = "binaryPulsar"
    /\ descriptor.stellarProfile.palette =
         [primary |-> SEEKER_COLOR, secondary |-> PREORDER_COLOR]

\* a combo wallet of a single-star tier whose score stays under the binary
\* activation
WitnessComboOnSingleStarTier ==
  /\ pc = "generateSolarSystem"
  /\ traits.hasCombo
  /\ traits.rarityTier = "common"
  /\ score <= 650
  /\ descriptor.stellarProfile.mode = "binary"

\* C15: on the mythic tier, whatever the flags, the star mode is binaryPulsar
\* and the descriptor has a nebula; the palette is the two badge colours when
\* hasCombo is set and the palette of the mythic tier otherwise.
MythicOverridesProfile ==
  (pc = "generateSolarSystem" /\ traits.rarityTier = "mythic") =>
    /\ descriptor.stellarProfile.mode = "binaryPulsar"
    /\ descriptor.nebula # Null
    /\ descriptor.stellarProfile.palette =
         (IF traits.hasCombo
            THEN [primary |-> SEEKER_COLOR, secondary |-> PREORDER_COLOR]
            ELSE [primary |-> "#FF9C6D", secondary |-> "#7F5BFF"])

\* a mythic wallet holding the Seeker badge alone
WitnessMythicWithSeekerOnly ==
  /\ pc = "generateSolarSystem"
  /\ traits.rarityTier = "mythic"
  /\ traits.hasSeeker
  /\ ~traits.hasCombo
  /\ descriptor.stellarProfile.sunType = "mythic"

\* C16: a generated scene has a ringed planet if and only if isBlueChip is set
\* or the tier ensures rings (every tier but common), and the ringed planet has
\* the maximal size of the scene, the lowest index among planets of that size.
RingOnLargestPlanet ==
  pc = "generateSolarSystem" =>
    /\ (RingedPlanets(descriptor) # {}) <=>
         (traits.isBlueChip \/ traits.rarityTier # "common")
    /\ \A k \in RingedPlanets(descriptor) : \A j \in 1..Len(descriptor.planets) :
         /\ descriptor.planets[j].size <= descriptor.planets[k].size
         /\ j < k => descriptor.planets[j].size < descriptor.planets[k].size

\* a common wallet with blue-chip holdings whose ring sits on a planet after
\* the first
WitnessBlueChipRingOnLaterPlanet ==
  /\ pc = "generateSolarSystem"
  /\ traits.rarityTier = "common"
  /\ traits.isBlueChip
  /\ \E k \in 2..Len(descriptor.planets) : RingedPlanets(descriptor) = {k}

\* C17: on the tiers whose configuration ensures moons (epic, legendary,
\* mythic), whatever nftCount is, every planet of the generated scene has at
\* least one moon.
EveryPlanetHasMoonOnEnsuringTiers ==
  (pc = "generateSolarSystem" /\ traits.rarityTier \in {"epic", "legendary", "mythic"}) =>
    \A k \in 1..Len(descriptor.planets) : Len(descriptor.planets[k].moons) >= 1

\* an epic wallet without NFTs is given a scene without any moon
WitnessEpicWithoutMoons ==
  /\ pc = "generateSolarSystem"
  /\ traits.rarityTier = "epic"
  /\ traits.nftCount = 0
  /\ MoonTotal(descriptor.planets, 1) = 0

\* C18: on the tiers that do not ensure moons (common, rare) the moons of all
\* planets of the generated scene number floor(nftCount / 50).
MoonTotalIsNftBudget ==
  (pc = "generateSolarSystem" /\ traits.rarityTier \in {"common", "rare"}) =>
    MoonTotal(descriptor.planets, 1) = traits.nftCount \div 50

\* a rare wallet with 50 NFTs, a budget of one moon, is given two
WitnessTwoMoonsForFiftyNfts ==
  /\ pc = "generateSolarSystem"
  /\ traits.rarityTier = "rare"
  /\ traits.nftCount = 50
  /\ MoonTotal(descriptor.planets, 1) = 2

\* C19: a planet with two moons has the second at the angle of the first plus
\* pi (233280 in the unit pi/233280 of initialAngle), no planet of index 2 or
\* more has a moon and no planet has more than two.
MoonsAreOpposite ==
  pc = "generateSolarSystem" =>
    \A k \in 1..Len(descriptor.planets) :
      /\ Len(descriptor.planets[k].moons) <= 2
      /\ k > 2 => descriptor.planets[k].moons = <<>>
      /\ Len(descriptor.planets[k].moons) = 2 =>
           descriptor.planets[k].moons[2].initialAngle =
             descriptor.planets[k].moons[1].initialAngle + 233280

\* two moons on each of the first two planets of a scene with more planets
WitnessTwoPairsOfMoons ==
  /\ pc = "generateSolarSystem"
  /\ traits.nftCount = 230
  /\ Len(descriptor.planets) >= 3
  /\ Len(descriptor.planets[1].moons) = 2
  /\ Len(descriptor.planets[2].moons) = 2
  /\ descriptor.planets[1].moons[1].initialAngle
       # descriptor.planets[2].moons[1].initialAngle

\* C21: the descriptor has a nebula if and only if the tier is mythic, the one
\* tier whose configuration flags it; on every other tier the field is
\* undefined, and a nebula that is present has its colours.
NebulaOnlyOnMythic ==
  pc = "generateSolarSystem" =>
    /\ (descriptor.nebula # Null) <=> (traits.rarityTier = "mythic")
    /\ descriptor.nebula # Null => Len(descriptor.nebula.colors) = 3

\* a legendary wallet with the combo, the richest scene under mythic, has none
WitnessLegendaryWithoutNebula ==
  /\ pc = "generateSolarSystem"
  /\ traits.rarityTier = "legendary"
  /\ traits.hasCombo
  /\ descriptor.nebula = Null

\* the type the first turn of the planet loop selects when the random source is
\* in state s
TypeDrawnFrom(t, currentScore, s) == PlanetType(t, currentScore, Draws(s, 4)).type

\* C23: a meme-active wallet can draw the volcanic category and a defi-active
\* wallet the ice category, and for a wallet without activity bias each of the
\* four categories of the catalogue is selected for some state of the random
\* source.
EveryCategoryCanBeDrawn ==
  pc = "generateSolarSystem" =>
    /\ traits.isMemeLord =>
         \E s \in 0..(RandomModulus - 1) : TypeDrawnFrom(traits, score, s) = "volcanic"
    /\ traits.isDeFiKing =>
         \E s \in 0..(RandomModulus - 1) : TypeDrawnFrom(traits, score, s) = "ice"
    /\ (~traits.isMemeLord /\ ~traits.isDeFiKing /\ traits.txCount <= 500 /\ score <= 600) =>
         \A category \in {"terrestrial", "volcanic", "gas", "ice"} :
           \E s \in 0..(RandomModulus - 1) : TypeDrawnFrom(traits, score, s) = category

\* a scene of ten planets for a wallet without activity bias, all of them gas
\* or volcanic, both present
WitnessUnbiasedGasAndVolcanic ==
  /\ pc = "generateSolarSystem"
  /\ ~traits.isMemeLord /\ ~traits.isDeFiKing /\ traits.txCount <= 500 /\ score <= 600
  /\ Len(descriptor.planets) = 10
  /\ {descriptor.planets[k].type : k \in 1..10} = {"gas", "volcanic"}

\* celestialStats of the Index page (src/unnamed/part_000, l. 93-113) for a
\* non-null traits record
CelestialStats(t) ==
  [stars |-> IF t.hasCombo \/ t.rarityTier = "mythic" \/ t.rarityTier = "legendary"
               THEN 2 ELSE 1,
   planets |-> Min(Max(CASE t.rarityTier = "mythic" -> 8
                         [] t.rarityTier = "legendary" -> 6
                         [] t.rarityTier = "epic" -> 5
                         [] t.rarityTier = "rare" -> 4
                         [] OTHER -> 1,
                       t.uniqueTokenCount \div 10),
                   10),
   moons |-> Min(Max(CASE t.rarityTier = "mythic" -> 8
                       [] t.rarityTier = "legendary" -> 6
                       [] t.rarityTier = "epic" -> 5
                       [] t.rarityTier = "rare" -> 4
                       [] OTHER -> 1,
                     t.uniqueTokenCount \div 10),
                 10)
               * Min(t.nftCount \div 50, 4)]

\* C28: for every traits record whose rarityTier is the tier of its score, the
\* PLANETS value of the page header is the number of planets and the MOONS
\* value the number of moons of the scene generated for the same traits.
HeaderStatsMatchScene ==
  (pc = "generateSolarSystem" /\ traits.rarityTier = DetermineRarityTier(score)) =>
    /\ CelestialStats(traits).planets = Len(descriptor.planets)
    /\ CelestialStats(traits).moons = MoonTotal(descriptor.planets, 1)

\* a rare wallet with 50 NFTs: the header counts a moon on each of the four
\* planets, the scene has two
WitnessHeaderCountsFourMoons ==
  /\ pc = "generateSolarSystem"
  /\ traits.rarityTier = "rare"
  /\ DetermineRarityTier(score) = "rare"
  /\ traits.nftCount = 50
  /\ CelestialStats(traits).planets = 4
  /\ Len(descriptor.planets) = 4
  /\ CelestialStats(traits).moons = 4
  /\ MoonTotal(descriptor.planets, 1) = 2

\* C29: when rarityTier is the tier resolved from calculateScore(traits), the
\* promotion at score > 650 never decides: the mode is single exactly when the
\* tier is common, rare or epic and hasCombo is false.
PromotionNeverDecides ==
  (pc = "generateSolarSystem" /\ traits.rarityTier = InlineRarityTier(score)) =>
    ((descriptor.stellarProfile.mode = "single") <=>
       (traits.rarityTier \in {"common", "rare", "epic"} /\ ~traits.hasCombo))

\* a wallet without the combo whose score passes 650: its tier is legendary,
\* which has two stars of its own
WitnessScoreAboveSixFifty ==
  /\ pc = "generateSolarSystem"
  /\ traits.rarityTier = InlineRarityTier(score)
  /\ ~traits.hasCombo
  /\ score > 650
  /\ traits.rarityTier = "legendary"
  /\ descriptor.stellarProfile.mode = "binary"

(***************************************************************************)
(* SpecScore: calculateScore, the publish step of useWalletData and        *)
(* mintIdentityPrism on the published pair                                 *)
(***************************************************************************)
\* the wallet address the hook is given
ScannedAddress == <<71, 84, 50, 50, 115, 56, 57, 110, 85, 52, 105, 87, 70, 107, 78, 88>>

\* every combination of the eight flags; the numeric fields sit on both sides of
\* the steps of calculateScore (0.1 and 5 SOL, 180 and 365 days, 50 and 100 NFTs,
\* the cap of the transaction bonus at 500 transactions)
ScoreTraits ==
  { TraitsOf(<<seeker, preorder, combo>>, blue, defi, meme, hyper, diamond,
             45, n, tx, <<sol, age>>, "common") :
      seeker \in BOOLEAN, preorder \in BOOLEAN, combo \in BOOLEAN,
      blue \in BOOLEAN, defi \in BOOLEAN, meme \in BOOLEAN,
      hyper \in BOOLEAN, diamond \in BOOLEAN,
      n \in {0, 51, 230}, tx \in {0, 125, 130, 1500},
      sol \in {0, 10, 500}, age \in {0, 200, 900} }

InitScore ==
  /\ traits \in ScoreTraits
  /\ walletAddress = ScannedAddress
  /\ seed = 0
  /\ lastValue = 0
  /\ calls = 0
  /\ descriptor = Null
  /\ previous = Null
  /\ score = 0
  /\ tier = None
  /\ walletData = NoWalletData
  /\ metadata = Null
  /\ hash = NoHash
  /\ inflight = {}
  /\ page = NoPage
  /\ tables = ModuleTables
  /\ scene = NoScene
  /\ pc = "input"

\* calculateScore(traits) called on the record as it stands
Score ==
  /\ pc = "input"
  /\ score' = CalculateScore(traits)
  /\ pc' = "calculateScore"
  /\ UNCHANGED <<traits, walletAddress, seed, lastValue, calls, descriptor, previous,
                 tier, walletData, metadata,
                 hash, scene, inflight, page, tables>>

\* Math.min(Math.floor((walletAgeDays / 365) * 100), 300) (l. 836); the
\* floating-point quotient floors to the exact one for every age up to 5000 days
WalletAgeBonus(walletAgeDays) == Min((walletAgeDays * 100) \div 365, 300)

\* the traits object the hook builds from what the scan found (l. 838-847):
\* hasCombo and diamondHands are derived, rarityTier starts as "common"
ScannedTraits(t) ==
  [t EXCEPT !.hasCombo = t.hasSeeker /\ t.hasPreorder,
            !.diamondHands = t.walletAgeDays >= 60,
            !.rarityTier = "common"]
    @@ [walletAgeBonus |-> WalletAgeBonus(t.walletAgeDays)]

\* the end of a successful fetchData (l. 838-853): score, tier, setWalletData
Publish ==
  /\ pc = "input"
  /\ LET scanned == ScannedTraits(traits)
         s == CalculateScore(scanned)
         published == [scanned EXCEPT !.rarityTier = InlineRarityTier(s)]
     IN  /\ walletData' = [address |-> walletAddress, traits |-> published, score |-> s,
                           isLoading |-> FALSE, error |-> None]
         /\ score' = s
         /\ tier' = published.rarityTier
  /\ pc' = "publish"
  /\ UNCHANGED <<traits, walletAddress, seed, lastValue, calls, descriptor, previous,
                 metadata,
                 hash, scene, inflight, page, tables>>

\* the catch branch of fetchData (l. 856-860)
PublishError ==
  /\ pc = "input"
  /\ walletData' = [address |-> walletAddress, traits |-> Null, score |-> 0,
                    isLoading |-> FALSE, error |-> "Cosmic synchronization failed."]
  /\ pc' = "error"
  /\ UNCHANGED <<traits, walletAddress, seed, lastValue, calls, descriptor, previous,
                 score, tier, metadata,
                 hash, scene, inflight, page, tables>>

\* C22: the wallet-age term calculateScore adds is at most WALLET_AGE_MAX and is
\* the walletAgeBonus recorded in the published traits, the capped linear
\* function of walletAgeDays.
AgeTermIsRecordedBonus ==
  pc = "publish" =>
    /\ AgeBonus(walletData.traits) <= WALLET_AGE_MAX
    /\ AgeBonus(walletData.traits) = walletData.traits.walletAgeBonus

\* a wallet of 900 days and nothing else: 150 points of the score of 200 for its
\* age (50 for diamondHands), 246 recorded
WitnessAgeTermBelowRecorded ==
  /\ pc = "publish"
  /\ walletData.traits.walletAgeDays = 900
  /\ walletData.traits.walletAgeBonus = 246
  /\ AgeBonus(walletData.traits) = 150
  /\ walletData.score = 200

\* the MintMetadata of mintIdentityPrism (l. 68-92) without its timestamp; the
\* traits record of the hook has no walletAgeYears, so that read gives undefined
MintMetadata(address, t, s) ==
  [score |-> s,
   rarity |-> t.rarityTier,
   traits |-> [seeker |-> t.hasSeeker, preorder |-> t.hasPreorder, combo |-> t.hasCombo,
               blueChip |-> t.isBlueChip, memeLord |-> t.isMemeLord,
               defiKing |-> t.isDeFiKing, hyperactive |-> t.hyperactiveDegen,
               diamondHands |-> t.diamondHands],
   stats |-> [tokens |-> t.uniqueTokenCount, nfts |-> t.nftCount,
              transactions |-> t.txCount, solBalance |-> t.solBalance,
              walletAgeYears |-> None],
   address |-> address]

\* mintIdentityPrism on the published (address, traits, score)
Mint ==
  /\ pc = "publish"
  /\ walletData.traits # Null
  /\ metadata' = MintMetadata(walletData.address, walletData.traits, walletData.score)
  /\ pc' = "mintIdentityPrism"
  /\ UNCHANGED <<traits, walletAddress, seed, lastValue, calls, descriptor, previous,
                 score, tier, walletData,
                 hash, scene, inflight, page, tables>>

NextScore == Score \/ Publish \/ PublishError \/ Mint

SpecScore == InitScore /\ [][NextScore]_vars

\* C2: for every traits record with non-negative numeric fields and every
\* combination of the flags, calculateScore returns s with 0 <= s <= MAX_SCORE.
ScoreWithinBounds ==
  pc \in {"calculateScore", "publish"} => (0 <= score /\ score <= MAX_SCORE)

\* every flag set and every numeric bonus at its cap: the highest score there is
WitnessHighestScore ==
  /\ pc = "calculateScore"
  /\ traits.hasSeeker /\ traits.hasPreorder /\ traits.hasCombo
  /\ traits.isBlueChip /\ traits.isDeFiKing /\ traits.isMemeLord
  /\ traits.hyperactiveDegen /\ traits.diamondHands
  /\ traits.txCount = 1500
  /\ score = 1185

\* C4: when t2 has both badges and the combo, and t1 differs from t2 only in
\* having one badge and no combo, calculateScore(t2) is calculateScore(t1)
\* plus COMBO_BONUS plus the bonus of the badge t1 lacks: at least COMBO_BONUS
\* more, and never cut by the MAX_SCORE clamp.
ComboIsAdditive ==
  (pc = "calculateScore" /\ traits.hasSeeker /\ traits.hasPreorder /\ traits.hasCombo) =>
    LET seekerOnly == [traits EXCEPT !.hasPreorder = FALSE, !.hasCombo = FALSE]
        preorderOnly == [traits EXCEPT !.hasSeeker = FALSE, !.hasCombo = FALSE]
    IN  /\ score = CalculateScore(seekerOnly) + COMBO_BONUS + CHAPTER2_PREORDER_BONUS
        /\ score = CalculateScore(preorderOnly) + COMBO_BONUS + SEEKER_GENESIS_BONUS
        /\ score >= CalculateScore(seekerOnly) + COMBO_BONUS
        /\ score >= CalculateScore(preorderOnly) + COMBO_BONUS

\* the pair whose larger score is the highest of all, 1185 against 785
WitnessComboAtHighestScore ==
  /\ pc = "calculateScore"
  /\ traits.hasSeeker /\ traits.hasPreorder /\ traits.hasCombo
  /\ score = 1185
  /\ CalculateScore([traits EXCEPT !.hasSeeker = FALSE, !.hasCombo = FALSE]) = 785

\* C9: for every (traits, score) the hook publishes with non-null traits, the
\* tier resolved from the score embedded in the MintMetadata is the embedded rarity.
MintedRarityMatchesScore ==
  metadata # Null => DetermineRarityTier(metadata.score) = metadata.rarity

\* a published score exactly on the mythic threshold, minted
WitnessMintedOnThreshold ==
  /\ pc = "mintIdentityPrism"
  /\ metadata # Null
  /\ metadata.score = MYTHIC_THRESHOLD
  /\ metadata.rarity = "mythic"
  /\ metadata.score = walletData.score
  /\ metadata.rarity = walletData.traits.rarityTier

(***************************************************************************)
(* SpecTier: the two rarity resolutions on every score of 0..MAX_SCORE     *)
(***************************************************************************)
NoTraits ==
  TraitsOf(<<FALSE, FALSE, FALSE>>, FALSE, FALSE, FALSE, FALSE, FALSE,
           0, 0, 0, <<0, 0>>, "common")

InitTier ==
  /\ traits = NoTraits
  /\ walletAddress = <<>>
  /\ seed = 0
  /\ lastValue = 0
  /\ calls = 0
  /\ descriptor = Null
  /\ previous = Null
  /\ score \in 0..MAX_SCORE
  /\ tier = None
  /\ walletData = NoWalletData
  /\ metadata = Null
  /\ hash = NoHash
  /\ inflight = {}
  /\ page = NoPage
  /\ tables = ModuleTables
  /\ scene = NoScene
  /\ pc = "input"

\* determineRarityTier(score)
Resolve ==
  /\ pc = "input"
  /\ tier' = DetermineRarityTier(score)
  /\ pc' = "determineRarityTier"
  /\ UNCHANGED <<traits, walletAddress, seed, lastValue, calls, descriptor, previous,
                 score, walletData, metadata,
                 hash, scene, inflight, page, tables>>

\* the literal chain of the hook on the same score
ResolveInline ==
  /\ pc = "input"
  /\ tier' = InlineRarityTier(score)
  /\ pc' = "inlineRarityTier"
  /\ UNCHANGED <<traits, walletAddress, seed, lastValue, calls, descriptor, previous,
                 score, walletData, metadata,
                 hash, scene, inflight, page, tables>>

NextTier == Resolve \/ ResolveInline

SpecTier == InitTier /\ [][NextTier]_vars

\* RARITY_THRESHOLDS in the order of Tiers (src/unnamed/part_007, l. 328-334)
RarityThresholds ==
  <<COMMON_THRESHOLD, RARE_THRESHOLD, EPIC_THRESHOLD, LEGENDARY_THRESHOLD,
    MYTHIC_THRESHOLD>>

\* the tiers whose threshold is the highest one not above s
TiersOfHighestThreshold(s) ==
  { Tiers[i] : i \in { i \in 1..Len(Tiers) :
                         /\ RarityThresholds[i] <= s
                         /\ \A j \in 1..Len(Tiers) :
                              RarityThresholds[j] <= s =>
                                RarityThresholds[j] <= RarityThresholds[i] } }

\* C3: for every score in 0..MAX_SCORE the resolved tier is the one tier of
\* the highest threshold <= score; no higher score resolves to a lower tier;
\* and the literal chain of the hook and determineRarityTier give the same tier.
TierIsInclusiveStepFunction ==
  pc \in {"determineRarityTier", "inlineRarityTier"} =>
    /\ TiersOfHighestThreshold(score) = {tier}
    /\ tier = DetermineRarityTier(score)
    /\ tier = InlineRarityTier(score)
    /\ \A s2 \in score..MAX_SCORE :
         /\ TierRank(tier) <= TierRank(DetermineRarityTier(s2))
         /\ TierRank(tier) <= TierRank(InlineRarityTier(s2))

\* a score exactly on a threshold, resolved by the literal chain
WitnessScoreOnThreshold ==
  /\ pc = "inlineRarityTier"
  /\ score = LEGENDARY_THRESHOLD
  /\ tier = "legendary"
  /\ DetermineRarityTier(score - 1) = "epic"

(***************************************************************************)
(* SpecRandom: the generator returned by seededRandom(seed), drawn from    *)
(***************************************************************************)
MaxSeed == 300

MaxDraws == 3

\* seeds around zero on both sides, and seeds at and above the modulus
RandomSeeds ==
  ((0 - MaxSeed)..MaxSeed)
    \cup {RandomModulus - 1, RandomModulus, RandomModulus + 1, 1000000007}

InitRandom ==
  /\ traits = NoTraits
  /\ walletAddress = <<>>
  /\ seed \in RandomSeeds
  /\ lastValue = 0
  /\ calls = 0
  /\ descriptor = Null
  /\ previous = Null
  /\ score = 0
  /\ tier = None
  /\ walletData = NoWalletData
  /\ metadata = Null
  /\ hash = NoHash
  /\ inflight = {}
  /\ page = NoPage
  /\ tables = ModuleTables
  /\ scene = NoScene
  /\ pc = "seededRandom"

\* one call of random(): seed = (seed * 9301 + 49297) % 233280; return seed / 233280
Random ==
  /\ calls < MaxDraws
  /\ seed' = NextSeed(seed)
  /\ lastValue' = NextSeed(seed)
  /\ calls' = calls + 1
  /\ pc' = "random"
  /\ UNCHANGED <<traits, walletAddress, descriptor, previous, score, tier, walletData,
                 metadata,
                 hash, scene, inflight, page, tables>>

NextRandom == Random

SpecRandom == InitRandom /\ [][NextRandom]_vars

\* C10: for every integer seed every call of random() returns v = lastValue /
\* 233280 with 0 <= v < 1, and the state after the call is in 0..233279.
RandomInUnitInterval ==
  pc = "random" =>
    /\ 0 <= lastValue /\ lastValue < RandomModulus
    /\ seed \in 0..(RandomModulus - 1)

\* seededRandom(-100): the first call leaves the state -180963 and returns -0.7757...
WitnessNegativeRandom ==
  /\ pc = "random"
  /\ calls = 1
  /\ seed = 0 - 180963
  /\ lastValue < 0

(***************************************************************************)
(* SpecHash: hashWalletAddress on identity strings, and the seed of the    *)
(* random source that generateSolarSystem derives from it                  *)
(***************************************************************************)
\* character codes of "1", "A", "a" and "z"
HashAlphabet == {49, 65, 97, 122}

\* "11FpwaLx": its fold ends on the bit pattern 0x80000000
FoldsToMinInt32 == <<49, 49, 70, 112, 119, 97, 76, 120>>

\* the empty string, every string of one to three characters of HashAlphabet,
\* and the longer strings
HashAddresses ==
  Addresses
    \cup {FoldsToMinInt32}
    \cup {<<a>> : a \in HashAlphabet}
    \cup {<<a, b>> : a \in HashAlphabet, b \in HashAlphabet}
    \cup {<<a, b, c>> : a \in HashAlphabet, b \in HashAlphabet, c \in HashAlphabet}

SeedTraits ==
  { TraitsOf(<<FALSE, FALSE, FALSE>>, FALSE, FALSE, FALSE, FALSE, FALSE,
             u, n, 0, <<0, 0>>, "common") : u \in {0, 45}, n \in {0, 230} }

InitHash ==
  /\ traits \in SeedTraits
  /\ walletAddress \in HashAddresses
  /\ seed = 0
  /\ lastValue = 0
  /\ calls = 0
  /\ descriptor = Null
  /\ previous = Null
  /\ score = 0
  /\ tier = None
  /\ walletData = NoWalletData
  /\ metadata = Null
  /\ hash = NoHash
  /\ inflight = {}
  /\ page = NoPage
  /\ tables = ModuleTables
  /\ scene = NoScene
  /\ pc = "input"

\* hashWalletAddress(walletAddress)
Hash ==
  /\ pc = "input"
  /\ hash' = HashWalletAddress(walletAddress)
  /\ pc' = "hashWalletAddress"
  /\ UNCHANGED <<traits, walletAddress, seed, lastValue, calls, descriptor, previous,
                 score, tier, walletData, metadata, scene, inflight, page, tables>>

\* the first lines of generateSolarSystem (l. 504-505): addressSeed and the
\* state the random source starts in
SeedSource ==
  /\ pc = "input"
  /\ hash' = AddressSeed(walletAddress)
  /\ seed' = InitialSeed(traits, walletAddress)
  /\ pc' = "seededRandom"
  /\ UNCHANGED <<traits, walletAddress, lastValue, calls, descriptor, previous,
                 score, tier, walletData, metadata, scene, inflight, page, tables>>

NextHash == Hash \/ SeedSource

SpecHash == InitHash /\ [][NextHash]_vars

\* C11: for every identity string hashWalletAddress returns a non-negative
\* integer that fits a 32-bit signed integer: 0 <= hash <= 2^31 - 1, that is a
\* high limb below 2^15.
HashFitsInt32 ==
  pc = "hashWalletAddress" =>
    /\ 0 <= hash.lo /\ hash.lo < 2^16
    /\ 0 <= hash.hi /\ hash.hi < 2^15

\* hashWalletAddress("11FpwaLx") = Math.abs(-2147483648) = 2147483648 = 2^31
WitnessHashIsTwoToThe31 ==
  /\ pc = "hashWalletAddress"
  /\ walletAddress = FoldsToMinInt32
  /\ hash = [hi |-> 2^15, lo |-> 0]

(***************************************************************************)
(* SpecDust: generateSolarSystem for a wallet whose transaction count      *)
(* grows between calls                                                     *)
(***************************************************************************)
\* transaction counts on both sides of the steps of floor(txCount / 100) and of
\* the count at which each tier reaches the 3000 particles (35700, 29400,
\* 26000, 23200, 19000)
DustTxCounts ==
  {0, 99, 100, 250, 1500, 18900, 19000, 23200, 26000, 29300, 29400, 35600, 35700,
   50000}

DustTraits ==
  { TraitsOf(badges, FALSE, FALSE, FALSE, FALSE, FALSE, u, 0, tx, <<0, 0>>, rarityTier) :
      badges \in {<<FALSE, FALSE, FALSE>>, <<TRUE, TRUE, TRUE>>},
      u \in {0, 120}, tx \in DustTxCounts, rarityTier \in TierSet }

InitDust ==
  /\ traits \in DustTraits
  /\ walletAddress = ScannedAddress
  /\ seed = 0
  /\ lastValue = 0
  /\ calls = 0
  /\ descriptor = Null
  /\ previous = Null
  /\ score = 0
  /\ tier = None
  /\ walletData = NoWalletData
  /\ metadata = Null
  /\ hash = NoHash
  /\ inflight = {}
  /\ page = NoPage
  /\ tables = ModuleTables
  /\ scene = NoScene
  /\ pc = "input"

\* the wallet signs more transactions: the next scan counts more signatures
\* (const txCount = signatures.length)
Transact ==
  /\ calls < MaxCalls
  /\ \E tx \in DustTxCounts :
       /\ tx > traits.txCount
       /\ traits' = [traits EXCEPT !.txCount = tx]
  /\ pc' = "input"
  /\ UNCHANGED <<walletAddress, seed, lastValue, calls, descriptor, previous, score,
                 tier, walletData, metadata, hash, scene, inflight, page, tables>>

NextDust == Generate \/ Transact

SpecDust == InitDust /\ [][NextDust]_vars

\* C20: for every tier and txCount, spaceDust.particleCount is
\* min(floor((150 + floor(txCount / 100) * 8) * DUST_MULTIPLIER[tier]), 3000), so
\* it is at most 3000 and does not fall when txCount grows; spreadRadius is
\* 50 + 6 * planetCount, plus 10 when the stellar mode is not single.
DustFollowsTransactions ==
  pc = "generateSolarSystem" =>
    /\ descriptor.spaceDust.particleCount =
         Min(((150 + (traits.txCount \div 100) * 8)
                * (CASE traits.rarityTier = "common" -> 100
                     [] traits.rarityTier = "rare" -> 120
                     [] traits.rarityTier = "epic" -> 135
                     [] traits.rarityTier = "legendary" -> 150
                     [] traits.rarityTier = "mythic" -> 180)) \div 100,
             3000)
    /\ descriptor.spaceDust.particleCount <= 3000
    /\ previous # Null =>
         descriptor.spaceDust.particleCount >= previous.spaceDust.particleCount
    /\ descriptor.spaceDust.spreadRadius =
         50 + 6 * Len(descriptor.planets)
            + (IF descriptor.stellarProfile.mode # "single" THEN 10 ELSE 0)

\* a second scene for a wallet whose transactions grew past the count that
\* fills the dust field
WitnessDustReachesCap ==
  /\ pc = "generateSolarSystem"
  /\ previous # Null
  /\ previous.spaceDust.particleCount < 3000
  /\ traits.txCount = 50000
  /\ descriptor.spaceDust.particleCount = 3000
  /\ descriptor.stellarProfile.mode = "single"

(***************************************************************************)
(* SpecScene: the Index page with useWalletData and the mounted            *)
(* SolarSystem / SolarSystemScene (src/unnamed/part_000, part_005)         *)
(***************************************************************************)
MaxFetches == 3

\* "0xDemo...Wallet"
DemoWalletAddress ==
  <<48, 120, 68, 101, 109, 111, 46, 46, 46, 87, 97, 108, 108, 101, 116>>

\* buildDisconnectedWalletData (src/src/hooks/useWalletData.ts, l. 878-880)
DisconnectedWalletData ==
  [address |-> DemoWalletAddress, score |-> 0, traits |-> Null, isLoading |-> FALSE,
   error |-> None]

SceneAddresses == {ScannedAddress, FoldsToMinInt32}

\* what a scan can find: an empty wallet, and the wallet of the scenario
SceneTraits ==
  { NoTraits,
    TraitsOf(<<TRUE, TRUE, FALSE>>, TRUE, FALSE, FALSE, FALSE, FALSE,
             45, 230, 1500, <<600, 900>>, "common") }

\* the traits object and the score a successful fetchData publishes (l. 838-853)
PublishedTraits(t) ==
  [ScannedTraits(t) EXCEPT !.rarityTier = InlineRarityTier(CalculateScore(ScannedTraits(t)))]

\* the value a throwing factory leaves: generateSolarSystem(null, ...) raises a
\* TypeError on traits.rarityTier (src/unnamed/part_002, l. 503)
Threw == [threw |-> TRUE]

\* traits ? ... : null, the guard of the useMemo factory (part_005, l. 508)
GeneratesAlways(t) == TRUE

Generates(t) == t # Null

\* the useMemo factory
SystemDataOf(t, address) ==
  IF Generates(t)
    THEN IF t = Null THEN Threw ELSE GenerateSolarSystem(t, address).data
    ELSE Null

\* useMemo dependencies are compared with Object.is: the traits object by
\* identity, the address string by value
MemoDeps(ref, address) == [traitsRef |-> ref, walletAddress |-> address]

\* the visible elements of SolarSystem and SolarSystemScene (part_005, l. 518-573);
\* camera, lights, controls and post-processing are left out
Presented(wd, warping, systemData) ==
  {"Starfield"}
    \cup (IF warping THEN {"HyperjumpLines"}
          ELSE IF systemData # Null
            THEN {"SeekerSun", "Planets", "SpaceDust"}
                   \cup (IF systemData.nebula # Null THEN {"Nebula"} ELSE {})
          ELSE {})

\* the component after a render that ended with systemData; executed says
\* whether the factory called generateSolarSystem
SceneAfter(wd, ref, warping, sc, systemData, executed) ==
  [scene |->
     [mounted |-> TRUE,
      traitsRef |-> ref,
      objects |-> Max(sc.objects, ref),
      fetches |-> sc.fetches,
      isWarping |-> warping,
      deps |-> MemoDeps(ref, wd.address),
      generatedFor |-> IF executed
                         THEN [traits |-> wd.traits, walletAddress |-> wd.address]
                         ELSE sc.generatedFor,
      repeated |-> IF executed
                      /\ sc.generatedFor = [traits |-> wd.traits,
                                            walletAddress |-> wd.address]
                     THEN sc.repeated + 1 ELSE sc.repeated,
      threw |-> systemData = Threw,
      shown |-> IF systemData = Threw THEN {} ELSE Presented(wd, warping, systemData),
      traitsOf |-> sc.traitsOf],
   descriptor |-> IF systemData = Threw THEN Null ELSE systemData,
   calls |-> IF executed THEN calls + 1 ELSE calls]

\* one render of SolarSystem with props traits = wd.traits (the object ref),
\* walletAddress = wd.address and isWarping
RenderScene(wd, ref, warping, sc, desc) ==
  IF sc.deps = MemoDeps(ref, wd.address)
    THEN SceneAfter(wd, ref, warping, sc, desc, FALSE)
    ELSE SceneAfter(wd, ref, warping, sc, SystemDataOf(wd.traits, wd.address),
                    Generates(wd.traits))

\* the dependencies of the view-state effect (part_000, l. 69); traits is
\* compared by identity
ViewDeps(address, warping, wd, ref) ==
  [resolvedAddress |-> address, isWarping |-> warping, isLoading |-> wd.isLoading,
   traitsRef |-> ref]

\* the view-state effect of the page (part_000, l. 51-69) after a render: when a
\* dependency changed its cleanup clears the pending timer and it runs again
ViewAfter(pg, address, warping, wd, ref) ==
  IF pg.viewDeps = ViewDeps(address, warping, wd, ref) THEN pg
  ELSE [pg EXCEPT
          !.viewDeps = ViewDeps(address, warping, wd, ref),
          !.viewState = IF address = <<>> THEN "landing"
                        ELSE IF warping \/ wd.isLoading \/ wd.traits = Null
                          THEN "scanning"
                        ELSE @,
          !.readyTimer = /\ address # <<>>
                         /\ ~warping
                         /\ ~wd.isLoading
                         /\ wd.traits # Null]

InitScene ==
  /\ traits \in SceneTraits
  /\ walletAddress = <<>>
  /\ seed = 0
  /\ lastValue = 0
  /\ calls = 0
  /\ descriptor = Null
  /\ previous = Null
  /\ score = 0
  /\ tier = None
  /\ walletData = DisconnectedWalletData
  /\ metadata = Null
  /\ hash = NoHash
  /\ inflight = {}
  /\ page \in {[NoPage EXCEPT !.hasApiKey = key] : key \in BOOLEAN}
  /\ tables = ModuleTables
  /\ scene = NoScene
  /\ pc = "input"

\* the state change of a handler followed by the render it causes and the
\* effects of that render; address is the resolved address of the render
Rerender(wd, ref, warping, sc, address, pg) ==
  \E r \in {RenderScene(wd, ref, warping, sc, descriptor)} :
    /\ walletData' = wd
    /\ scene' = r.scene
    /\ descriptor' = r.descriptor
    /\ calls' = r.calls
    /\ page' = ViewAfter(pg, address, warping, wd, ref)
    /\ UNCHANGED <<seed, lastValue, previous, score, tier, metadata, hash, tables>>

\* the first render of the page, no address resolved
MountScene ==
  /\ ~scene.mounted
  /\ Rerender(walletData, 0, FALSE, scene, <<>>, page)
  /\ pc' = "mount"
  /\ UNCHANGED <<traits, walletAddress, inflight>>

\* the cleanup of the effect of useWalletData: cancelled = true (l. 864)
Cancelled(fetches) == {[f EXCEPT !.cancelled = TRUE] : f \in fetches}

\* a new address starts a warp and its 2500 ms timer (part_000, l. 71-85)
WarpStarted(pg, address) ==
  [pg EXCEPT !.warpTimers = IF address # walletAddress THEN @ + 1 ELSE @]

\* the effect of useWalletData starts fetchData (l. 554-572): for a new address
\* (wallet connected or explored, with the warp of part_000 l. 71-85), or again
\* for the same address when the connection object changes; the scan will find
\* found.  The effect of the render before is cleaned up.  The previous traits
\* object stays in walletData while loading.
StartFetch ==
  /\ scene.mounted
  /\ scene.fetches < MaxFetches
  /\ page.hasApiKey
  /\ \E address \in SceneAddresses, found \in SceneTraits :
       /\ walletAddress' = address
       /\ traits' = found
       /\ inflight' = Cancelled(inflight)
                        \cup {[id |-> scene.fetches + 1, address |-> address,
                               found |-> found, cancelled |-> FALSE]}
       /\ Rerender([walletData EXCEPT !.address = address, !.isLoading = TRUE,
                                      !.error = None],
                   scene.traitsRef,
                   scene.isWarping \/ address # walletAddress,
                   [scene EXCEPT !.fetches = @ + 1],
                   address,
                   WarpStarted(page, address))
  /\ pc' = "fetchData"

\* the same effect when HELIUS_CONFIG.API_KEY is missing (l. 564-568): fetchData
\* returns at once, leaving the address of walletData as it was
SkipFetch ==
  /\ scene.mounted
  /\ scene.fetches < MaxFetches
  /\ ~page.hasApiKey
  /\ \E address \in SceneAddresses :
       /\ walletAddress' = address
       /\ Rerender([walletData EXCEPT !.isLoading = FALSE, !.error = "API Key Missing"],
                   scene.traitsRef,
                   scene.isWarping \/ address # walletAddress,
                   [scene EXCEPT !.fetches = @ + 1],
                   address,
                   WarpStarted(page, address))
  /\ inflight' = Cancelled(inflight)
  /\ pc' = "apiKeyMissing"
  /\ UNCHANGED traits

\* if (cancelled) return; (l. 852 and l. 858)
PublishesAlways(f) == TRUE

Publishes(f) == ~f.cancelled

\* a write of walletData by the fetch f, counted when f had been cancelled
Written(pg, f) ==
  [pg EXCEPT !.staleWrites = IF f.cancelled THEN @ + 1 ELSE @]

\* fetchData ends well (l. 838-853): a new traits object is published
FinishFetch ==
  /\ scene.mounted
  /\ \E f \in inflight :
       /\ Publishes(f)
       /\ inflight' = inflight \ {f}
       /\ Rerender([address |-> f.address, traits |-> PublishedTraits(f.found),
                    score |-> CalculateScore(ScannedTraits(f.found)),
                    isLoading |-> FALSE, error |-> None],
                   scene.objects + 1, scene.isWarping,
                   [scene EXCEPT !.traitsOf = f.address],
                   walletAddress, Written(page, f))
  /\ pc' = "publish"
  /\ UNCHANGED <<traits, walletAddress>>

\* fetchData ends in its catch branch (l. 856-860)
FailFetch ==
  /\ scene.mounted
  /\ \E f \in inflight :
       /\ Publishes(f)
       /\ inflight' = inflight \ {f}
       /\ Rerender([address |-> f.address, traits |-> Null, score |-> 0,
                    isLoading |-> FALSE, error |-> "Cosmic synchronization failed."],
                   0, scene.isWarping, scene, walletAddress, Written(page, f))
  /\ pc' = "error"
  /\ UNCHANGED <<traits, walletAddress>>

\* a fetchData whose effect was cleaned up ends, well or not, and returns at
\* if (cancelled) return
ReturnCancelled ==
  /\ \E f \in inflight :
       /\ ~Publishes(f)
       /\ inflight' = inflight \ {f}
  /\ pc' = "cancelled"
  /\ UNCHANGED <<traits, walletAddress, seed, lastValue, calls, descriptor, previous,
                 score, tier, walletData, metadata, hash, scene, page, tables>>

\* a 2500 ms timer of a warp fires: setIsWarping(false)
EndWarp ==
  /\ scene.mounted
  /\ page.warpTimers > 0
  /\ Rerender(walletData, scene.traitsRef, FALSE, scene, walletAddress,
              [page EXCEPT !.warpTimers = @ - 1])
  /\ pc' = "endWarp"
  /\ UNCHANGED <<traits, walletAddress, inflight>>

\* the 500 ms timer of the view-state effect fires: setViewState("ready")
ShowReady ==
  /\ page.readyTimer
  /\ page' = [page EXCEPT !.viewState = "ready", !.readyTimer = FALSE]
  /\ pc' = "ready"
  /\ UNCHANGED <<traits, walletAddress, seed, lastValue, calls, descriptor, previous,
                 score, tier, walletData, metadata, hash, scene, inflight, tables>>

\* the address becomes undefined: the effect is cleaned up and resets to the
\* disconnected data
Disconnect ==
  /\ scene.mounted
  /\ walletAddress # <<>>
  /\ walletAddress' = <<>>
  /\ inflight' = Cancelled(inflight)
  /\ Rerender(DisconnectedWalletData, 0, scene.isWarping, scene, <<>>, page)
  /\ pc' = "disconnect"
  /\ UNCHANGED traits

NextScene ==
  \/ MountScene
  \/ StartFetch
  \/ SkipFetch
  \/ FinishFetch
  \/ FailFetch
  \/ ReturnCancelled
  \/ EndWarp
  \/ ShowReady
  \/ Disconnect

SpecScene == InitScene /\ [][NextScene]_vars

SystemElements == {"Nebula", "SeekerSun", "Planets", "SpaceDust"}

\* C12 as stated: in every render of SolarSystem where traits is null the
\* starfield alone is shown, nothing was generated for null traits and nothing
\* was thrown.
StarfieldOnlyWithoutTraits ==
  /\ scene.generatedFor # Null => scene.generatedFor.traits # Null
  /\ (scene.mounted /\ walletData.traits = Null) =>
       /\ ~scene.threw
       /\ descriptor = Null
       /\ scene.shown = {"Starfield"}

\* C12 amended: generateSolarSystem is never invoked with null traits; in every
\* render of SolarSystem where traits is null no exception is thrown, no scene
\* is generated, none of the system elements is shown and the starfield is,
\* joined by the hyperjump lines exactly while the warp runs.
NoSceneWithoutTraits ==
  /\ scene.generatedFor # Null => scene.generatedFor.traits # Null
  /\ (scene.mounted /\ walletData.traits = Null) =>
       /\ ~scene.threw
       /\ descriptor = Null
       /\ scene.shown \cap SystemElements = {}
       /\ scene.shown = (IF scene.isWarping THEN {"Starfield", "HyperjumpLines"}
                         ELSE {"Starfield"})

\* a wallet address is present, its scan failed after an earlier one had
\* produced a scene, and the warp is over
WitnessNoTraitsAfterScene ==
  /\ scene.mounted
  /\ walletData.traits = Null
  /\ walletData.address = ScannedAddress
  /\ walletData.error # None
  /\ calls > 0
  /\ ~scene.isWarping
  /\ scene.shown = {"Starfield"}

\* C13: generateSolarSystem is executed again only when the address or the
\* content of the traits record differs from the inputs of the execution
\* before it.
NoRegenerationOnEqualContent == scene.repeated = 0

\* a second fetch for the same address has published traits of the content of
\* the first and the scene has been generated twice for them
WitnessRefetchedSameContent ==
  /\ pc = "publish"
  /\ scene.fetches = 2
  /\ scene.traitsRef = 2
  /\ calls = 2
  /\ scene.generatedFor = [traits |-> walletData.traits,
                           walletAddress |-> walletData.address]
  /\ scene.repeated = 1

\* C25: a fetchData whose effect has been cleaned up never writes walletData,
\* in its success branch or in its error branch: every write comes from the
\* fetch of the current effect, so it carries the resolved address, and without
\* a resolved address walletData stays the disconnected data.
StaleResultsNeverPublished ==
  /\ page.staleWrites = 0
  /\ pc \in {"publish", "error"} => walletData.address = walletAddress
  /\ (scene.mounted /\ walletAddress = <<>>) => walletData = DisconnectedWalletData

\* the fetch of the first effect returned after the second effect had started
\* its own, which is still loading, and nothing was published
WitnessFirstFetchReturnedCancelled ==
  /\ pc = "cancelled"
  /\ scene.fetches = 2
  /\ walletData.isLoading
  /\ walletData.traits = Null
  /\ Cardinality(inflight) = 1
  /\ \A f \in inflight : f.id = 2 /\ ~f.cancelled /\ f.address = walletAddress

\* C26: in every published WalletData with traits, the traits come from a scan
\* of the address of that WalletData, also while a newly selected address is
\* loading; and a generated scene never joins the traits of one wallet with the
\* address of another.
TraitsBelongToAddress ==
  /\ (scene.mounted /\ walletData.traits # Null) => scene.traitsOf = walletData.address
  /\ descriptor # Null => scene.generatedFor.walletAddress = scene.traitsOf

\* while the second address is loading walletData still holds the traits of
\* the first, and a scene has been generated from them with the second address
WitnessOtherWalletsTraitsWhileLoading ==
  /\ pc = "fetchData"
  /\ walletData.isLoading
  /\ walletData.traits # Null
  /\ scene.traitsOf = ScannedAddress
  /\ walletData.address = FoldsToMinInt32
  /\ scene.generatedFor = [traits |-> walletData.traits,
                           walletAddress |-> FoldsToMinInt32]
  /\ calls = 2

\* the timers of the page fire and its first render happens; nothing makes a
\* fetch return or the user act
SpecSceneFair ==
  /\ SpecScene
  /\ WF_vars(MountScene)
  /\ WF_vars(EndWarp)
  /\ WF_vars(ShowReady)

\* C27: once the scan of a resolved address has finished, whatever its outcome,
\* and the warp is over, viewState eventually leaves "scanning"; and viewState
\* is "ready" only while traits is non-null.
ViewLeavesScanning ==
  /\ (walletAddress # <<>> /\ ~walletData.isLoading /\ ~scene.isWarping)
       ~> (page.viewState # "scanning")
  /\ [](page.viewState = "ready" => walletData.traits # Null)

\* the scan failed, no timer is pending, no fetch is in flight, and the page
\* still shows the scan
WitnessScanningAfterFailure ==
  /\ walletAddress # <<>>
  /\ walletData.error = "Cosmic synchronization failed."
  /\ ~walletData.isLoading
  /\ ~scene.isWarping
  /\ page.warpTimers = 0
  /\ ~page.readyTimer
  /\ inflight = {}
  /\ page.viewState = "scanning"

(***************************************************************************)
(* SpecAlias: generateSolarSystem and a caller that writes into the        *)
(* descriptor it was returned                                              *)
(***************************************************************************)
\* the colour the caller writes
Repainted == "#000000"

\* the two tiers with two stars, every badge and flag combination
AliasTraits ==
  { t \in GeneratorTraits :
      /\ t.rarityTier \in {"legendary", "mythic"}
      /\ t.uniqueTokenCount = 0 /\ t.nftCount = 0 /\ t.txCount = 0
      /\ t.solBalance = 0 }

InitAlias ==
  /\ traits \in AliasTraits
  /\ walletAddress \in Addresses
  /\ seed = 0
  /\ lastValue = 0
  /\ calls = 0
  /\ descriptor = Null
  /\ previous = Null
  /\ score = 0
  /\ tier = None
  /\ walletData = NoWalletData
  /\ metadata = Null
  /\ hash = NoHash
  /\ inflight = {}
  /\ page = NoPage
  /\ tables = ModuleTables
  /\ scene = NoScene
  /\ pc = "input"

\* the descriptor the call before returned, after a write of Repainted through
\* the palette object: it changes only if it holds that object too
RepaintedToo(d, aliased) ==
  IF d # Null /\ {"descriptor", "previous"} \subseteq aliased
    THEN [d EXCEPT !.stellarProfile.palette.primary = Repainted]
    ELSE d

\* the caller assigns descriptor.stellarProfile.palette.primary; the write lands
\* in every holder of that palette object
Repaint ==
  /\ descriptor # Null
  /\ descriptor.stellarProfile.palette.primary # Repainted
  /\ descriptor' = [descriptor EXCEPT !.stellarProfile.palette.primary = Repainted]
  /\ previous' = RepaintedToo(previous, tables.aliased)
  /\ tables' = IF "descriptor" \in tables.aliased
                 THEN [tables EXCEPT !.palettes["mythic"].primary = Repainted]
                 ELSE tables
  /\ pc' = "repaint"
  /\ UNCHANGED <<traits, walletAddress, seed, lastValue, calls, score, tier,
                 walletData, metadata, hash, scene, inflight, page>>

NextAlias == Generate \/ Repaint

SpecAlias == InitAlias /\ [][NextAlias]_vars

\* C30: a returned descriptor shares no mutable object with the configuration
\* tables or another descriptor: whatever field of it the caller changes,
\* RARITY_VISUALS keeps its values, a descriptor returned earlier keeps its own
\* and a later call with the same inputs returns the original palette.
DescriptorSharesNothing ==
  /\ tables.palettes = [rarityTier \in TierSet |-> RarityVisuals(rarityTier).palette]
  /\ pc = "generateSolarSystem" =>
       descriptor.stellarProfile.palette = StellarProfile(traits, score).palette
  /\ (pc = "repaint" /\ previous # Null) =>
       previous.stellarProfile.palette = StellarProfile(traits, score).palette

\* the primary colour of a mythic scene was changed and the next call for the
\* same traits returns the changed colour, read from RARITY_VISUALS
WitnessRepaintedMythicReturned ==
  /\ pc = "generateSolarSystem"
  /\ calls = 2
  /\ traits.rarityTier = "mythic"
  /\ traits.hasSeeker
  /\ tables.palettes["mythic"].primary = Repainted
  /\ descriptor.stellarProfile.palette.primary = Repainted
  /\ descriptor.spaceDust.colors[1] = Repainted

====
